---- MODULE Spec2Model ----
(***************************************************************************)
(* Model of benji's bounded completion driver and token bucket             *)
(* (src/src/benji/utils.py, src/src/backy2/utils.py).                      *)
(*                                                                         *)
(* Part 1, the completion driver: future_results_as_completed(futures,     *)
(* semaphore, timeout) run by one consumer thread, the producers that      *)
(* acquire a permit and append a Future to the list, and the executor's    *)
(* workers that start, finish and notify the cancellation of Futures.      *)
(* concurrent.futures.as_completed is modelled by what it does: it takes   *)
(* a snapshot set(fs) at its first advance, yields the Futures of the      *)
(* snapshot that are already done in the order of a set iteration, then    *)
(* the others in batches taken from its waiter, and raises TimeoutError    *)
(* when it is about to wait after the deadline.                            *)
(*                                                                         *)
(* Part 2, the token bucket: TokenBucket.set_rate and TokenBucket.consume  *)
(* run by several threads, one statement per step, under self.lock; the    *)
(* threads call at any time (BucketSpec) or sleep the wait that consume    *)
(* returned before they call again (PacedSpec).                            *)
(***************************************************************************)
EXTENDS Integers, Sequences, FiniteSets, TLC

\* ------------------------------------------------------------------ bounds
\* number of tasks the producers submit
MaxTasks == 2
\* largest size K of the permit pool (the semaphore's initial value)
MaxPool == 2

\* the bucket: last instant of the clock, largest rate, largest amount of one
\* consume, and the number of calls the threads make
MaxTime == 2
MaxRate == 2
MaxAmount == 3
MaxCalls == 4

\* the bucket in floating point: largest rate and largest amount of one consume
MaxFloatRate == 11
MaxFloatAmount == 26
MaxFloatSleep == 1

Handles == 1..MaxTasks
NoHandle == 0

\* the threads that call one TokenBucket
Threads == {"t1", "t2"}
NoThread == "free"

\* ------------------------------------------------------------------ state
VARIABLES
  sem,        \* TRUE when the driver is used with a semaphore (semaphore is not None)
  pool,       \* the size K of the permit pool (0 when there is no semaphore)
  permits,    \* the semaphore's counter: permits available
  holds,      \* holds[h]: the permit acquired for h has not been released (ghost)
  fstate,     \* fstate[h]: "none", "acquired" (submit holds a permit, not yet registered),
              \*   then the Future's _state: "pending", "running", "finished",
              \*   "cancelled" (CANCELLED), "notified" (CANCELLED_AND_NOTIFIED)
  outcome,    \* outcome[h]: what the finished task produced: "none", "value",
              \*   "exception" (an Exception), "baseexception" (a BaseException that
              \*   is no Exception, such as SystemExit)
  futures,    \* the list `futures`: the active set, in registration order
  completed,  \* the handles in the order they completed (ghost)
  dpc,        \* position of the consumer in future_results_as_completed
  timeout,    \* TRUE when the running drain was given a timeout
  expired,    \* TRUE once the deadline of the running drain has passed
  snap,       \* the snapshot set(fs) the running drain took (ghost, never shrinks)
  early,      \* handles some drain found already done when as_completed sorted its
              \*   snapshot into finished and pending (ghost)
  asFs,       \* as_completed: fs, the Futures that still carry its waiter
  asPending,  \* as_completed: pending
  asFinished, \* as_completed: finished, the list being yielded (popped from its end)
  waiterFin,  \* as_completed: waiter.finished_futures
  future,     \* the drain's local variable `future` (NoHandle when unbound)
  result,     \* the drain's local variable `result`
  out,        \* the handles the running drain has yielded, in order (ghost)
  yielded     \* every result the consumer received: <<handle, kind>> in order (ghost)

\* the token bucket
VARIABLES
  clock,      \* what time() returns now
  tokens,     \* self.tokens
  rate,       \* self.rate
  last,       \* self.last
  lock,       \* self.lock: the thread that holds it, or NoThread
  pc,         \* pc[t]: the statement thread t executes next ("idle": in no call)
  arg,        \* arg[t]: the argument of t's call (a rate or an amount)
  now,        \* now[t]: t's local variable `now`
  lapse,      \* lapse[t]: t's local variable `lapse`
  ret,        \* ret[t]: what t's last call returned, a fraction <<num, den>>
  pre,        \* pre[t]: <<tokens, rate, last>> when t entered its critical section (ghost)
  seq,        \* the bucket of the sequential execution, calls in exit order (ghost)
  seqRet,     \* seqRet[t]: what t's last call returns in the sequential execution (ghost)
  calls,      \* the number of calls begun (ghost)
  burst,      \* <<sum, at>>: the amounts consumed since the last set_rate, all at the
              \*   instant `at` (-1: none yet); <<-1, -1>> once time passed between
              \*   two of them (ghost)
  retAt,      \* retAt[t]: the instant t's latest consume returned (ghost)
  total,      \* the amount consumed since set_rate returned (ghost)
  setAt       \* the instant set_rate returned, -1 before (ghost)

\* the token bucket with its arithmetic in floating point, one caller
VARIABLES
  fclock,     \* what time() returns now, a float
  ftokens,    \* self.tokens, a float
  frate,      \* self.rate, an int
  flast,      \* self.last, a float
  fret,       \* what the latest consume returned, a float
  fbefore,    \* self.tokens before the debit of the latest consume (ghost)
  farg,       \* the amount of the latest consume (ghost)
  fwait,      \* the wait the caller slept out: what the consume before returned (ghost)
  fextra,     \* the whole time units the caller slept on top of that wait, -1 when
              \*   it did not sleep (ghost)
  fstep       \* where the caller is: "new", "rated", "consumed", "slept", "done"

fvars == <<fclock, ftokens, frate, flast, fret, fbefore, farg, fwait, fextra, fstep>>

\* what paced producers keep track of; left unchanged by every other caller
gvars == <<retAt, total, setAt>>

\* the bucket of whole instants and tokens, and its callers
xvars == <<clock, tokens, rate, last, lock, pc, arg, now, lapse, ret, pre, seq, seqRet,
           calls, burst, gvars>>

bvars == <<xvars, fvars>>

dvars == <<sem, pool, permits, holds, fstate, outcome, futures, completed, dpc, timeout,
           expired, snap, early, asFs, asPending, asFinished, waiterFin, future,
           result, out, yielded>>

\* ------------------------------------------------------------------ helpers
Range(s) == {s[i] : i \in 1..Len(s)}

Reverse(s) == [i \in 1..Len(s) |-> s[Len(s) + 1 - i]]

\* list.remove(x): removes the first occurrence of x and raises ValueError when x
\* is not in the list. The result is the list left and the exception raised.
RemoveFutureHead(fs, f) ==
  IF Len(fs) = 0 THEN [list |-> fs, raises |-> "ValueError"]
  ELSE [list |-> Tail(fs), raises |-> "none"]

RemoveFuture(fs, f) ==
  IF f \notin Range(fs) THEN [list |-> fs, raises |-> "ValueError"]
  ELSE LET i == CHOOSE k \in 1..Len(fs) : fs[k] = f /\ \A j \in 1..(k - 1) : fs[j] # f
       IN  [list |-> SubSeq(fs, 1, i - 1) \o SubSeq(fs, i + 1, Len(fs)),
            raises |-> "none"]

\* the orders in which list(set) may enumerate S
Orders(S) ==
  {s \in [1..Cardinality(S) -> S] : \A i, j \in 1..Cardinality(S) : s[i] = s[j] => i = j}

\* Future.cancelled()
Cancelled(h) == fstate[h] \in {"cancelled", "notified"}

\* Future.done() as as_completed tests it: _state in [CANCELLED_AND_NOTIFIED, FINISHED]
Done(h) == fstate[h] \in {"finished", "notified"}

Registered(h) == fstate[h] \in {"pending", "running", "finished", "cancelled", "notified"}

DrainIdle == dpc \in {"idle", "ended", "timeout", "raised"}

\* ------------------------------------------------------------------ Init
DriverInit ==
  /\ sem \in BOOLEAN
  /\ pool \in (IF sem THEN 1..MaxPool ELSE {0})
  /\ permits = pool
  /\ holds = [h \in Handles |-> FALSE]
  /\ fstate = [h \in Handles |-> "none"]
  /\ outcome = [h \in Handles |-> "none"]
  /\ futures = <<>>
  /\ completed = <<>>
  /\ dpc = "idle"
  /\ timeout = FALSE
  /\ expired = FALSE
  /\ snap = {}
  /\ early = {}
  /\ asFs = {}
  /\ asPending = {}
  /\ asFinished = <<>>
  /\ waiterFin = <<>>
  /\ future = NoHandle
  /\ result = <<NoHandle, "none">>
  /\ out = <<>>
  /\ yielded = <<>>

\* ------------------------------------------------------------------ producers
\* submit, first half: semaphore.acquire() blocks until a permit is available.
\* Handles are numbered in the order their submit gets past the acquire.
SubmitAcquire(h) ==
  /\ fstate[h] = "none"
  /\ \A g \in Handles : g < h => fstate[g] # "none"
  /\ sem => permits > 0
  /\ permits' = IF sem THEN permits - 1 ELSE permits
  /\ holds' = [holds EXCEPT ![h] = sem]
  /\ fstate' = [fstate EXCEPT ![h] = "acquired"]
  /\ UNCHANGED <<bvars, sem, pool, outcome, futures, completed, dpc, timeout, expired,
                 snap, early, asFs, asPending, asFinished, waiterFin, future, result,
                 out, yielded>>

\* submit, second half: executor.submit(job) and futures.append(future)
SubmitRegister(h) ==
  /\ fstate[h] = "acquired"
  /\ fstate' = [fstate EXCEPT ![h] = "pending"]
  /\ futures' = Append(futures, h)
  /\ UNCHANGED <<bvars, sem, pool, permits, holds, outcome, completed, dpc, timeout,
                 expired, snap, early, asFs, asPending, asFinished, waiterFin, future,
                 result, out, yielded>>

\* ------------------------------------------------------------------ executor
\* what a Future's waiters are told when it is done: as_completed's waiter appends it
Notify(h) == IF h \in asFs THEN Append(waiterFin, h) ELSE waiterFin

\* a worker takes the work item: set_running_or_notify_cancel() on a PENDING Future
TaskStart(h) ==
  /\ fstate[h] = "pending"
  /\ fstate' = [fstate EXCEPT ![h] = "running"]
  /\ UNCHANGED <<bvars, sem, pool, permits, holds, outcome, futures, completed, dpc,
                 timeout, expired, snap, early, asFs, asPending, asFinished, waiterFin,
                 future, result, out, yielded>>

\* the task returns or raises: set_result / set_exception
TaskFinish(h, kind) ==
  /\ fstate[h] = "running"
  /\ fstate' = [fstate EXCEPT ![h] = "finished"]
  /\ outcome' = [outcome EXCEPT ![h] = kind]
  /\ completed' = Append(completed, h)
  /\ waiterFin' = Notify(h)
  /\ UNCHANGED <<bvars, sem, pool, permits, holds, futures, dpc, timeout, expired, snap,
                 early, asFs, asPending, asFinished, future, result, out, yielded>>

\* Future.cancel(): succeeds on a Future no worker has taken yet; touches no permit
TaskCancel(h) ==
  /\ fstate[h] = "pending"
  /\ fstate' = [fstate EXCEPT ![h] = "cancelled"]
  /\ UNCHANGED <<bvars, sem, pool, permits, holds, outcome, futures, completed, dpc,
                 timeout, expired, snap, early, asFs, asPending, asFinished, waiterFin,
                 future, result, out, yielded>>

\* a worker takes the work item of a cancelled Future: set_running_or_notify_cancel()
TaskNotifyCancel(h) ==
  /\ fstate[h] = "cancelled"
  /\ fstate' = [fstate EXCEPT ![h] = "notified"]
  /\ completed' = Append(completed, h)
  /\ waiterFin' = Notify(h)
  /\ UNCHANGED <<bvars, sem, pool, permits, holds, outcome, futures, dpc, timeout,
                 expired, snap, early, asFs, asPending, asFinished, future, result, out,
                 yielded>>

\* ------------------------------------------------------------------ the drain
NoResult == <<NoHandle, "none">>

\* the statements of the loop body, lines 82-90, in program order
DrainOrderReleaseFirst == <<"release", "remove", "result", "del", "yield">>

DrainOrderYieldFirst == <<"remove", "release", "result", "yield", "del">>

DrainOrder == <<"remove", "release", "result", "del", "yield">>

\* the position after statement l: the next statement, or back in as_completed
StepAfter(l) ==
  LET i == CHOOSE k \in 1..Len(DrainOrder) : DrainOrder[k] = l
  IN  IF i = Len(DrainOrder) THEN "as" ELSE DrainOrder[i + 1]

\* as_completed: pending = fs - finished, the Futures of the snapshot not yet done
PendingOf(S) == {h \in S : ~Done(h)}

\* the generator is first advanced; as_completed's prologue, first half: end_time
\* is computed and fs = set(fs) reads the list. No lock is held yet: the producers
\* and the workers run on before the second half.
DrainStart(t) ==
  /\ DrainIdle
  /\ dpc' = "locks"
  /\ timeout' = t
  /\ expired' = FALSE
  /\ snap' = Range(futures)
  /\ future' = NoHandle
  /\ result' = NoResult
  /\ out' = <<>>
  /\ UNCHANGED <<bvars, sem, pool, permits, holds, fstate, outcome, futures, completed,
                 early, asFs, asPending, asFinished, waiterFin, yielded>>

\* as_completed's prologue, second half: with _AcquireFutures(fs), under the locks
\* of the Futures of fs, the Futures already done go to the list `finished` in the
\* order of a set iteration, the others to `pending`, and the waiter is installed on
\* every Future of fs
AsInstall ==
  /\ dpc = "locks"
  /\ dpc' = "as"
  /\ early' = early \cup {h \in snap : Done(h)}
  /\ asFs' = snap
  /\ asPending' = PendingOf(snap)
  /\ asFinished' \in Orders(snap \ PendingOf(snap))
  /\ waiterFin' = <<>>
  /\ UNCHANGED <<bvars, sem, pool, permits, holds, fstate, outcome, futures, completed,
                 timeout, expired, snap, future, result, out, yielded>>

\* the deadline passes while the drain is live
Expire ==
  /\ ~DrainIdle
  /\ timeout
  /\ ~expired
  /\ expired' = TRUE
  /\ UNCHANGED <<bvars, sem, pool, permits, holds, fstate, outcome, futures, completed,
                 dpc, timeout, snap, early, asFs, asPending, asFinished, waiterFin,
                 future, result, out, yielded>>

\* _yield_finished_futures: f = fs[-1]; remove f from fs and pending and the waiter
\* from f; yield fs.pop(). The for statement of line 81 binds `future`.
AsYield ==
  /\ dpc = "as"
  /\ asFinished # <<>>
  /\ LET f == asFinished[Len(asFinished)] IN
       /\ asFinished' = SubSeq(asFinished, 1, Len(asFinished) - 1)
       /\ asFs' = asFs \ {f}
       /\ asPending' = asPending \ {f}
       /\ future' = f
  /\ dpc' = DrainOrder[1]
  /\ UNCHANGED <<bvars, sem, pool, permits, holds, fstate, outcome, futures, completed,
                 timeout, expired, snap, early, waiterFin, result, out, yielded>>

\* the generator is left (StopIteration, or an exception unwinds it): as_completed's
\* finally clause removes the waiter from the Futures that still carry it
Unwind(how) ==
  /\ dpc' = how
  /\ asFs' = {}
  /\ asPending' = {}
  /\ asFinished' = <<>>
  /\ waiterFin' = <<>>
  /\ future' = NoHandle
  /\ result' = NoResult

\* TRUE when as_completed raises TimeoutError instead of waiting
TimedOut(t, e) == t /\ e

\* while pending: wait_timeout = end_time - now; if wait_timeout < 0: raise TimeoutError
AsCheck ==
  /\ dpc = "as"
  /\ asFinished = <<>>
  /\ asPending # {}
  /\ IF TimedOut(timeout, expired)
       THEN Unwind("timeout")
       ELSE /\ dpc' = "wait"
            /\ UNCHANGED <<asFs, asPending, asFinished, waiterFin, future, result>>
  /\ UNCHANGED <<bvars, sem, pool, permits, holds, fstate, outcome, futures, completed,
                 timeout, expired, snap, early, out, yielded>>

\* the order in which a batch taken from the waiter is laid out for popping
BatchOrderUnreversed(fin) == fin

BatchOrder(fin) == Reverse(fin)

\* waiter.event.wait(wait_timeout) returns, on a completion or at the deadline;
\* finished = waiter.finished_futures; waiter.finished_futures = []; finished.reverse()
AsWait ==
  /\ dpc = "wait"
  /\ waiterFin # <<>> \/ (timeout /\ expired)
  /\ asFinished' = BatchOrder(waiterFin)
  /\ waiterFin' = <<>>
  /\ dpc' = "as"
  /\ UNCHANGED <<bvars, sem, pool, permits, holds, fstate, outcome, futures, completed,
                 timeout, expired, snap, early, asFs, asPending, future, result, out,
                 yielded>>

\* pending is empty: as_completed returns, and so does the drain
AsEndEarly ==
  /\ dpc = "as"
  /\ asFinished = <<>>
  /\ Unwind("ended")
  /\ UNCHANGED <<bvars, sem, pool, permits, holds, fstate, outcome, futures, completed,
                 timeout, expired, snap, early, out, yielded>>

AsEnd ==
  /\ dpc = "as"
  /\ asFinished = <<>>
  /\ asPending = {}
  /\ Unwind("ended")
  /\ UNCHANGED <<bvars, sem, pool, permits, holds, fstate, outcome, futures, completed,
                 timeout, expired, snap, early, out, yielded>>

\* line 82: futures.remove(future)
\* A ValueError of list.remove unwinds the generator before the release; it takes
\* a Future that is no more in the list, which the one drain of the one consumer
\* never meets: it alone removes Futures, each once.
DrainRemove ==
  /\ dpc = "remove"
  /\ futures' = RemoveFuture(futures, future).list
  /\ IF RemoveFuture(futures, future).raises = "none"
       THEN /\ dpc' = StepAfter("remove")
            /\ UNCHANGED <<asFs, asPending, asFinished, waiterFin, future, result>>
       ELSE Unwind("raised")
  /\ UNCHANGED <<bvars, sem, pool, permits, holds, fstate, outcome, completed, timeout,
                 expired, snap, early, out, yielded>>

\* the condition of line 83: semaphore and not future.cancelled()
ReleasesAlways(s, c) == s

Releases(s, c) == s /\ ~c

\* lines 83-84: if semaphore and not future.cancelled(): semaphore.release()
DrainRelease ==
  /\ dpc = "release"
  /\ permits' = IF Releases(sem, Cancelled(future)) THEN permits + 1 ELSE permits
  /\ holds' = IF Releases(sem, Cancelled(future))
                THEN [holds EXCEPT ![future] = FALSE] ELSE holds
  /\ dpc' = StepAfter("release")
  /\ UNCHANGED <<bvars, sem, pool, fstate, outcome, futures, completed, timeout,
                 expired, snap, early, asFs, asPending, asFinished, waiterFin, future,
                 result, out, yielded>>

\* future.result() on a done Future: returns the value ("value") or raises what the
\* task raised, or CancelledError ("cancelled") when the Future was cancelled
ResultOf(h) == IF Cancelled(h) THEN "cancelled" ELSE outcome[h]

\* line 87, except Exception: what the handler catches. CancelledError is an Exception.
CaughtNotCancelled(kind) == kind = "exception"

Caught(kind) == kind \in {"exception", "cancelled"}

\* lines 85-88: try: result = future.result() / except Exception as exception:
\* result = exception. Anything else the task raised unwinds the generator.
\* future.result() blocks while the Future is neither done nor cancelled.
DrainResult ==
  /\ dpc = "result"
  /\ Done(future) \/ Cancelled(future)
  /\ IF ResultOf(future) = "value" \/ Caught(ResultOf(future))
       THEN /\ result' = <<future, ResultOf(future)>>
            /\ dpc' = StepAfter("result")
            /\ UNCHANGED <<asFs, asPending, asFinished, waiterFin, future>>
       ELSE Unwind("raised")
  /\ UNCHANGED <<bvars, sem, pool, permits, holds, fstate, outcome, futures, completed,
                 timeout, expired, snap, early, out, yielded>>

\* line 89: del future
DrainDel ==
  /\ dpc = "del"
  /\ future' = NoHandle
  /\ dpc' = StepAfter("del")
  /\ UNCHANGED <<bvars, sem, pool, permits, holds, fstate, outcome, futures, completed,
                 timeout, expired, snap, early, asFs, asPending, asFinished, waiterFin,
                 result, out, yielded>>

\* line 90: yield result. The consumer receives it; the generator resumes in
\* as_completed when the consumer advances it again.
DrainYield ==
  /\ dpc = "yield"
  /\ yielded' = Append(yielded, result)
  /\ out' = Append(out, result[1])
  /\ dpc' = StepAfter("yield")
  /\ UNCHANGED <<bvars, sem, pool, permits, holds, fstate, outcome, futures, completed,
                 timeout, expired, snap, early, asFs, asPending, asFinished, waiterFin,
                 future, result>>

\* ------------------------------------------------------------------ the token bucket
\* Instants are whole numbers and rates whole tokens per instant, so every token
\* count is a whole number; the wait -tokens / rate is kept as the fraction
\* <<-tokens, rate>>.
Frac(n, d) == <<n, d>>

FracEq(a, b) == a[1] * b[2] = b[1] * a[2]

Zero == Frac(0, 1)

\* no run of same-instant consumes on a freshly rated bucket is under way
NoBurst == <<-1, -1>>

\* TokenBucket.__init__: tokens = 0, rate = 0, last = time(), lock = Lock()
BucketInit ==
  /\ clock = 0
  /\ tokens = 0
  /\ rate = 0
  /\ last = 0
  /\ lock = NoThread
  /\ pc = [t \in Threads |-> "idle"]
  /\ arg = [t \in Threads |-> 0]
  /\ now = [t \in Threads |-> 0]
  /\ lapse = [t \in Threads |-> 0]
  /\ ret = [t \in Threads |-> Zero]
  /\ pre = [t \in Threads |-> <<0, 0, 0>>]
  /\ seq = <<0, 0, 0>>
  /\ seqRet = [t \in Threads |-> Zero]
  /\ calls = 0
  /\ burst = NoBurst
  /\ retAt = [t \in Threads |-> 0]
  /\ total = 0
  /\ setAt = -1

\* time passes
Tick ==
  /\ clock < MaxTime
  /\ clock' = clock + 1
  /\ UNCHANGED <<tokens, rate, last, lock, pc, arg, now, lapse, ret, pre, seq, seqRet,
                 calls, burst>>
  /\ UNCHANGED <<dvars, gvars, fvars>>

\* thread t calls set_rate(r) or consume(a)
Call(t, entry, x) ==
  /\ pc[t] = "idle"
  /\ calls < MaxCalls
  /\ calls' = calls + 1
  /\ pc' = [pc EXCEPT ![t] = entry]
  /\ arg' = [arg EXCEPT ![t] = x]
  /\ UNCHANGED <<clock, tokens, rate, last, lock, now, lapse, ret, pre, seq, seqRet,
                 burst>>
  /\ UNCHANGED <<dvars, gvars, fvars>>

\* with self.lock: Lock.acquire() blocks while another thread holds the lock
CanAcquireAlways(l) == TRUE

CanAcquire(l) == l = NoThread

\* lines 136 and 141: with self.lock, entering
Acquire(t) ==
  /\ pc[t] \in {"s_lock", "c_lock"}
  /\ CanAcquire(lock)
  /\ lock' = t
  /\ pre' = [pre EXCEPT ![t] = <<tokens, rate, last>>]
  /\ pc' = [pc EXCEPT ![t] = IF pc[t] = "s_lock" THEN "s_rate" ELSE "c_rate"]
  /\ UNCHANGED <<clock, tokens, rate, last, arg, now, lapse, ret, seq, seqRet, calls,
                 burst>>
  /\ UNCHANGED <<dvars, gvars, fvars>>

\* line 138 left out: the tokens stay what they were
SetRateTokensKeep(t) ==
  /\ pc[t] = "s_tokens"
  /\ pc' = [pc EXCEPT ![t] = "s_exit"]
  /\ UNCHANGED <<clock, tokens, rate, last, lock, arg, now, lapse, ret, pre, seq, seqRet,
                 calls, burst>>
  /\ UNCHANGED <<dvars, gvars, fvars>>

\* line 137: self.rate = rate
SetRateRate(t) ==
  /\ pc[t] = "s_rate"
  /\ rate' = arg[t]
  /\ pc' = [pc EXCEPT ![t] = "s_tokens"]
  /\ UNCHANGED <<clock, tokens, last, lock, arg, now, lapse, ret, pre, seq, seqRet,
                 calls, burst>>
  /\ UNCHANGED <<dvars, gvars, fvars>>

\* line 138: self.tokens = self.rate
SetRateTokens(t) ==
  /\ pc[t] = "s_tokens"
  /\ tokens' = rate
  /\ pc' = [pc EXCEPT ![t] = "s_exit"]
  /\ UNCHANGED <<clock, rate, last, lock, arg, now, lapse, ret, pre, seq, seqRet,
                 calls, burst>>
  /\ UNCHANGED <<dvars, gvars, fvars>>

\* set_rate as one step on the bucket b = <<tokens, rate, last>>
SetRateAtomic(b, r) == <<r, r, b[3]>>

\* set_rate leaves the with block: the lock is released, the call returns None
SetRateReturn(t) ==
  /\ pc[t] = "s_exit"
  /\ lock' = NoThread
  /\ seq' = SetRateAtomic(seq, arg[t])
  /\ pc' = [pc EXCEPT ![t] = "idle"]
  /\ arg' = [arg EXCEPT ![t] = 0]
  /\ pre' = [pre EXCEPT ![t] = <<0, 0, 0>>]
  /\ burst' = <<0, -1>>
  /\ UNCHANGED <<clock, tokens, rate, last, now, lapse, ret, seqRet, calls>>
  /\ UNCHANGED <<dvars, fvars>>

\* callers that keep no track of their calls
SetRateExit(t) == SetRateReturn(t) /\ UNCHANGED gvars

\* the condition of line 142: not self.rate
UnlimitedNever(r) == FALSE

Unlimited(r) == r = 0

\* lines 142-143: if not self.rate: return 0
ConsumeRate(t) ==
  /\ pc[t] = "c_rate"
  /\ IF Unlimited(rate)
       THEN /\ ret' = [ret EXCEPT ![t] = Zero]
            /\ pc' = [pc EXCEPT ![t] = "c_exit"]
       ELSE /\ pc' = [pc EXCEPT ![t] = "c_now"]
            /\ UNCHANGED ret
  /\ UNCHANGED <<clock, tokens, rate, last, lock, arg, now, lapse, pre, seq, seqRet,
                 calls, burst>>
  /\ UNCHANGED <<dvars, gvars, fvars>>

\* line 145: now = time()
ConsumeNow(t) ==
  /\ pc[t] = "c_now"
  /\ now' = [now EXCEPT ![t] = clock]
  /\ pc' = [pc EXCEPT ![t] = "c_lapse"]
  /\ UNCHANGED <<clock, tokens, rate, last, lock, arg, lapse, ret, pre, seq, seqRet,
                 calls, burst>>
  /\ UNCHANGED <<dvars, gvars, fvars>>

\* line 146: lapse = now - self.last
ConsumeLapse(t) ==
  /\ pc[t] = "c_lapse"
  /\ lapse' = [lapse EXCEPT ![t] = now[t] - last]
  /\ pc' = [pc EXCEPT ![t] = "c_last"]
  /\ UNCHANGED <<clock, tokens, rate, last, lock, arg, now, ret, pre, seq, seqRet,
                 calls, burst>>
  /\ UNCHANGED <<dvars, gvars, fvars>>

\* line 147: self.last = now
ConsumeLast(t) ==
  /\ pc[t] = "c_last"
  /\ last' = now[t]
  /\ pc' = [pc EXCEPT ![t] = "c_refill"]
  /\ UNCHANGED <<clock, tokens, rate, lock, arg, now, lapse, ret, pre, seq, seqRet,
                 calls, burst>>
  /\ UNCHANGED <<dvars, gvars, fvars>>

\* line 148: self.tokens += lapse * self.rate
Refill(tok, l, r) == tok + l * r

ConsumeRefill(t) ==
  /\ pc[t] = "c_refill"
  /\ tokens' = Refill(tokens, lapse[t], rate)
  /\ pc' = [pc EXCEPT ![t] = "c_clamp"]
  /\ UNCHANGED <<clock, rate, last, lock, arg, now, lapse, ret, pre, seq, seqRet,
                 calls, burst>>
  /\ UNCHANGED <<dvars, gvars, fvars>>

\* lines 150-151: if self.tokens > self.rate: self.tokens = self.rate
ClampNone(tok, r) == tok

ClampDouble(tok, r) == IF tok > 2 * r THEN 2 * r ELSE tok

Clamp(tok, r) == IF tok > r THEN r ELSE tok

ConsumeClamp(t) ==
  /\ pc[t] = "c_clamp"
  /\ tokens' = Clamp(tokens, rate)
  /\ pc' = [pc EXCEPT ![t] = "c_debit"]
  /\ UNCHANGED <<clock, rate, last, lock, arg, now, lapse, ret, pre, seq, seqRet,
                 calls, burst>>
  /\ UNCHANGED <<dvars, gvars, fvars>>

\* line 153: self.tokens -= tokens
ConsumeDebit(t) ==
  /\ pc[t] = "c_debit"
  /\ tokens' = tokens - arg[t]
  /\ pc' = [pc EXCEPT ![t] = "c_test"]
  /\ UNCHANGED <<clock, rate, last, lock, arg, now, lapse, ret, pre, seq, seqRet,
                 calls, burst>>
  /\ UNCHANGED <<dvars, gvars, fvars>>

\* lines 155-158: if self.tokens >= 0: return 0 / else: return -self.tokens / self.rate
WaitUnscaled(tok, r) == IF tok >= 0 THEN Zero ELSE Frac(-tok, 1)

WaitNone(tok, r) == Zero

Wait(tok, r) == IF tok >= 0 THEN Zero ELSE Frac(-tok, r)

ConsumeTest(t) ==
  /\ pc[t] = "c_test"
  /\ ret' = [ret EXCEPT ![t] = Wait(tokens, rate)]
  /\ pc' = [pc EXCEPT ![t] = "c_exit"]
  /\ UNCHANGED <<clock, tokens, rate, last, lock, arg, now, lapse, pre, seq, seqRet,
                 calls, burst>>
  /\ UNCHANGED <<dvars, gvars, fvars>>

\* consume as one step on the bucket b = <<tokens, rate, last>> at instant n:
\* the bucket it leaves and the wait it returns
ConsumeAtomic(b, n, a) ==
  IF b[2] = 0 THEN <<b, Zero>>
  ELSE LET tok == Clamp(Refill(b[1], n - b[3], b[2]), b[2]) - a
       IN  <<(<<tok, b[2], n>>), Wait(tok, b[2])>>

\* the run of same-instant consumes b = <<sum, at>> after a consume(a) at instant n
BurstAfter(b, n, a) ==
  IF b[1] < 0 THEN b
  ELSE IF b[2] \in {-1, n} THEN <<b[1] + a, n>>
  ELSE NoBurst

\* consume leaves the with block: the lock is released, the call returns
ConsumeReturn(t) ==
  /\ pc[t] = "c_exit"
  /\ lock' = NoThread
  /\ seq' = ConsumeAtomic(seq, now[t], arg[t])[1]
  /\ seqRet' = [seqRet EXCEPT ![t] = ConsumeAtomic(seq, now[t], arg[t])[2]]
  /\ pc' = [pc EXCEPT ![t] = "idle"]
  /\ arg' = [arg EXCEPT ![t] = 0]
  /\ now' = [now EXCEPT ![t] = 0]
  /\ lapse' = [lapse EXCEPT ![t] = 0]
  /\ pre' = [pre EXCEPT ![t] = <<0, 0, 0>>]
  /\ burst' = IF rate = 0 THEN burst ELSE BurstAfter(burst, now[t], arg[t])
  /\ UNCHANGED <<clock, tokens, rate, last, ret, calls>>
  /\ UNCHANGED <<dvars, fvars>>

\* callers that keep no track of their calls
ConsumeExit(t) == ConsumeReturn(t) /\ UNCHANGED gvars

BucketNext ==
  \/ Tick
  \/ \E t \in Threads :
       \/ \E r \in 0..MaxRate : Call(t, "s_lock", r)
       \/ \E a \in 0..MaxAmount : Call(t, "c_lock", a)
       \/ Acquire(t)
       \/ SetRateRate(t)
       \/ SetRateTokens(t)
       \/ SetRateExit(t)
       \/ ConsumeRate(t)
       \/ ConsumeNow(t)
       \/ ConsumeLapse(t)
       \/ ConsumeLast(t)
       \/ ConsumeRefill(t)
       \/ ConsumeClamp(t)
       \/ ConsumeDebit(t)
       \/ ConsumeTest(t)
       \/ ConsumeExit(t)

\* The producers of one rate-limited stream: one of them rates the bucket once, and
\* then each calls consume with at most MaxAmount units and sleeps the wait the call
\* returned before it calls again.
WaitedOut(t) == (clock - retAt[t]) * ret[t][2] >= ret[t][1]

PacedSetRate(t, r) ==
  /\ calls = 0
  /\ Call(t, "s_lock", r)

PacedConsume(t, a) ==
  /\ setAt >= 0
  /\ WaitedOut(t)
  /\ Call(t, "c_lock", a)

\* set_rate returns: the stream is rated from this instant
PacedSetRateExit(t) ==
  /\ SetRateReturn(t)
  /\ setAt' = clock
  /\ UNCHANGED <<retAt, total>>

\* consume returns: the producer notes the instant and sleeps the returned wait
PacedConsumeExit(t) ==
  /\ ConsumeReturn(t)
  /\ retAt' = [retAt EXCEPT ![t] = clock]
  /\ total' = total + arg[t]
  /\ UNCHANGED setAt

PacedNext ==
  \/ Tick
  \/ \E t \in Threads :
       \/ \E r \in 1..MaxRate : PacedSetRate(t, r)
       \/ \E a \in 0..MaxAmount : PacedConsume(t, a)
       \/ Acquire(t)
       \/ SetRateRate(t)
       \/ SetRateTokens(t)
       \/ PacedSetRateExit(t)
       \/ ConsumeRate(t)
       \/ ConsumeNow(t)
       \/ ConsumeLapse(t)
       \/ ConsumeLast(t)
       \/ ConsumeRefill(t)
       \/ ConsumeClamp(t)
       \/ ConsumeDebit(t)
       \/ ConsumeTest(t)
       \/ PacedConsumeExit(t)

\* ------------------------------------------------------------------ floating point
\* self.tokens, self.last and what time() returns are Python floats, IEEE 754
\* doubles: a sign and at most Mantissa significant bits, scaled by a power of two.
\* A float is [neg, bits, exp], standing for (-1)^neg * bits * 2^exp, where bits is
\* the binary numeral, most significant bit first, without leading or trailing
\* zeros; 0.0 has no bits. Every operation gives the exact result rounded to the
\* nearest float, ties to the even one. (The numbers of the model stay far from the
\* largest and the smallest double.)
Mantissa == 53

\* the bits one step of a long division takes; rates are below 2^DivWidth
DivWidth == 12

Zeros(k) == [i \in 1..k |-> 0]

Front(b) == SubSeq(b, 1, Len(b) - 1)

\* the binary numeral of the natural number n
RECURSIVE ToBits(_)
ToBits(n) == IF n = 0 THEN <<>> ELSE Append(ToBits(n \div 2), n % 2)

\* the natural number of the numeral b, of fewer than 31 bits
RECURSIVE FromBits(_)
FromBits(b) == IF b = <<>> THEN 0 ELSE 2 * FromBits(Front(b)) + b[Len(b)]

\* b without its leading zeros
Lead(b) ==
  IF \A i \in 1..Len(b) : b[i] = 0 THEN <<>>
  ELSE SubSeq(b, CHOOSE i \in 1..Len(b) : b[i] = 1 /\ \A j \in 1..(i - 1) : b[j] = 0, Len(b))

\* the number of trailing zeros of b, which has a bit that is 1
Trail(b) == Len(b) - (CHOOSE i \in 1..Len(b) : b[i] = 1 /\ \A j \in (i + 1)..Len(b) : b[j] = 0)

\* the float (-1)^neg * bits * 2^exp, for a numeral of at most Mantissa significant bits
Float(neg, bits, exp) ==
  LET b == Lead(bits)
  IN  IF b = <<>> THEN [neg |-> FALSE, bits |-> <<>>, exp |-> 0]
      ELSE [neg |-> neg, bits |-> SubSeq(b, 1, Len(b) - Trail(b)), exp |-> exp + Trail(b)]

\* the numeral b with leading zeros, n bits long
Pad(b, n) == Zeros(n - Len(b)) \o b

\* the sum of two numerals of the same length n, n + 1 bits long: the carry into the
\* place i comes from a place to its right where both bits are 1, through places
\* where one bit is
AddBits(a, b) ==
  LET n == Len(a)
      carry(i) == \E j \in (i + 1)..n :
                    /\ a[j] + b[j] = 2
                    /\ \A k \in (i + 1)..(j - 1) : a[k] + b[k] = 1
  IN  [i \in 1..(n + 1) |->
         IF i = 1 THEN (IF carry(0) THEN 1 ELSE 0)
         ELSE (a[i - 1] + b[i - 1] + (IF carry(i - 1) THEN 1 ELSE 0)) % 2]

\* the difference a - b of two numerals of the same length, a >= b: the place i lends
\* to a place to its right where a has 0 and b has 1, through places where a has no
\* more than b
SubBits(a, b) ==
  LET n == Len(a)
      borrow(i) == \E j \in (i + 1)..n :
                     /\ a[j] < b[j]
                     /\ \A k \in (i + 1)..(j - 1) : a[k] = b[k]
  IN  [i \in 1..n |-> (a[i] - b[i] - (IF borrow(i) THEN 1 ELSE 0)) % 2]

\* the numeral b plus one
Inc(b) == AddBits(b, Pad(<<1>>, Len(b)))

\* (-1)^neg * bits * 2^exp rounded to the nearest float, ties to even
Round(neg, bits, exp) ==
  LET b == Lead(bits)
      n == Len(b)
  IN  IF n <= Mantissa THEN Float(neg, b, exp)
      ELSE LET kept == SubSeq(b, 1, Mantissa)
               half == b[Mantissa + 1] = 1
               more == \E i \in (Mantissa + 2)..n : b[i] = 1
               up == half /\ (more \/ kept[Mantissa] = 1)
           IN  Float(neg, IF up THEN Inc(kept) ELSE kept, exp + n - Mantissa)

\* a < b, for numerals of the same length
LessBits(a, b) ==
  /\ a # b
  /\ LET i == CHOOSE k \in 1..Len(a) : a[k] # b[k] /\ \A j \in 1..(k - 1) : a[j] = b[j]
     IN  a[i] < b[i]

\* the sum of two numerals
SumBits(a, b) ==
  LET n == IF Len(a) > Len(b) THEN Len(a) ELSE Len(b)
  IN  AddBits(Pad(a, n), Pad(b, n))

\* the numeral b times the natural number r: b times the bits of r, shifted
RECURSIVE MulBits(_, _)
MulBits(b, r) ==
  IF r = 0 THEN <<>>
  ELSE SumBits(IF r % 2 = 1 THEN b ELSE <<>>, MulBits(b, r \div 2) \o <<0>>)

\* long division of the numeral b by r, 0 < r < 2^DivWidth, DivWidth bits at a time,
\* the remainder so far being rem: the quotient, followed by one more bit that is 1
\* when the division is not exact
RECURSIVE DivBits(_, _, _)
DivBits(b, r, rem) ==
  IF b = <<>> THEN <<IF rem = 0 THEN 0 ELSE 1>>
  ELSE LET w == IF Len(b) < DivWidth THEN Len(b) ELSE DivWidth
           n == rem * 2^w + FromBits(SubSeq(b, 1, w))
       IN  Pad(ToBits(n \div r), w) \o DivBits(SubSeq(b, w + 1, Len(b)), r, n % r)

\* float(n) of a natural number n
FromInt(n) == Float(FALSE, ToBits(n), 0)

FZero == FromInt(0)

\* -x
FNeg(x) == IF x.bits = <<>> THEN x ELSE [x EXCEPT !.neg = ~x.neg]

\* x + y
FAdd(x, y) ==
  LET e == IF x.exp < y.exp THEN x.exp ELSE y.exp
      a0 == x.bits \o Zeros(x.exp - e)
      b0 == y.bits \o Zeros(y.exp - e)
      n == IF Len(a0) > Len(b0) THEN Len(a0) ELSE Len(b0)
      a == Pad(a0, n)
      b == Pad(b0, n)
  IN  IF x.neg = y.neg THEN Round(x.neg, AddBits(a, b), e)
      ELSE IF LessBits(a, b) THEN Round(y.neg, SubBits(b, a), e)
      ELSE Round(x.neg, SubBits(a, b), e)

\* x - y
FSub(x, y) == FAdd(x, FNeg(y))

\* x * r, r an int >= 0
FMul(x, r) == Round(x.neg, MulBits(x.bits, r), x.exp)

\* x / r, r an int > 0: the quotient is taken far enough for the rounding
FDiv(x, r) ==
  LET k == Mantissa + DivWidth
  IN  Round(x.neg, DivBits(x.bits \o Zeros(k), r, 0), x.exp - k - 1)

\* x > y and x >= 0
FGreater(x, y) == FSub(y, x).neg

FNonNegative(x) == ~x.neg

\* TokenBucket.__init__ at the instant 0.0: tokens = 0.0, rate = 0, last = time()
FloatInit ==
  /\ fclock = FZero
  /\ ftokens = FZero
  /\ frate = 0
  /\ flast = FZero
  /\ fret = FZero
  /\ fbefore = FZero
  /\ farg = 0
  /\ fwait = FZero
  /\ fextra = -1
  /\ fstep = "new"

\* set_rate(r), lines 135-138: self.rate = rate; self.tokens = self.rate
FSetRate(r) ==
  /\ fstep = "new"
  /\ frate' = r
  /\ ftokens' = FromInt(r)
  /\ fstep' = "rated"
  /\ UNCHANGED <<fclock, flast, fret, fbefore, farg, fwait, fextra>>
  /\ UNCHANGED <<dvars, xvars>>

\* lines 145-151: lapse = now - self.last; self.tokens += lapse * self.rate;
\* if self.tokens > self.rate: self.tokens = self.rate
FRefilled(tok, l, r, n) ==
  LET t == FAdd(tok, FMul(FSub(n, l), r))
  IN  IF FGreater(t, FromInt(r)) THEN FromInt(r) ELSE t

\* lines 155-158: if self.tokens >= 0: return 0 / else: return -self.tokens / self.rate
FWait(tok, r) == IF FNonNegative(tok) THEN FZero ELSE FDiv(FNeg(tok), r)

\* consume(a), lines 140-158, the caller's first call and its second
FConsume(a) ==
  /\ fstep \in {"rated", "consumed", "slept"}
  /\ IF frate = 0
       THEN /\ fret' = FZero
            /\ UNCHANGED <<ftokens, flast, fbefore>>
       ELSE /\ flast' = fclock
            /\ fbefore' = FRefilled(ftokens, flast, frate, fclock)
            /\ ftokens' = FSub(FRefilled(ftokens, flast, frate, fclock), FromInt(a))
            /\ fret' = FWait(FSub(FRefilled(ftokens, flast, frate, fclock), FromInt(a)), frate)
  /\ farg' = a
  /\ fstep' = IF fstep = "rated" THEN "consumed" ELSE "done"
  /\ UNCHANGED <<fclock, frate, fwait, fextra>>
  /\ UNCHANGED <<dvars, xvars>>

\* the caller sleeps the wait consume returned and k whole time units more: time()
\* is then the instant of the call, which is 0.0, plus the wait, plus k
FSleep(k) ==
  /\ fstep = "consumed"
  /\ fret # FZero \/ k > 0
  /\ fclock' = FAdd(FAdd(fclock, fret), FromInt(k))
  /\ fwait' = fret
  /\ fextra' = k
  /\ fstep' = "slept"
  /\ UNCHANGED <<ftokens, frate, flast, fret, fbefore, farg>>
  /\ UNCHANGED <<dvars, xvars>>

FloatNext ==
  \/ \E r \in 0..MaxFloatRate : FSetRate(r)
  \/ \E a \in 0..MaxFloatAmount : FConsume(a)
  \/ \E k \in 0..MaxFloatSleep : FSleep(k)

\* ------------------------------------------------------------------ specification
TaskKinds == {"value", "exception", "baseexception"}

Producer == \E h \in Handles : SubmitAcquire(h) \/ SubmitRegister(h)

Executor ==
  \E h \in Handles :
    \/ TaskStart(h)
    \/ \E kind \in TaskKinds : TaskFinish(h, kind)
    \/ TaskCancel(h)
    \/ TaskNotifyCancel(h)

Consumer ==
  \/ \E t \in BOOLEAN : DrainStart(t)
  \/ AsInstall
  \/ AsYield
  \/ AsCheck
  \/ AsWait
  \/ AsEnd
  \/ DrainRemove
  \/ DrainRelease
  \/ DrainResult
  \/ DrainDel
  \/ DrainYield

DriverNext == Producer \/ Executor \/ Consumer \/ Expire

vars == <<dvars, bvars>>

\* the completion driver, beside a bucket nobody calls
Init == DriverInit /\ BucketInit /\ FloatInit

Next == DriverNext

Spec == Init /\ [][Next]_vars

\* the token bucket and its threads, beside a driver nobody uses
BucketSpecInit == BucketInit /\ FloatInit /\ DriverInit /\ ~sem

BucketSpec == BucketSpecInit /\ [][BucketNext]_vars

\* the token bucket and its paced producers
PacedSpec == BucketSpecInit /\ [][PacedNext]_vars

\* the token bucket in floating point and its one caller
FloatSpec == BucketSpecInit /\ [][FloatNext]_vars

\* The driver without timeouts, with the scheduling the liveness claims assume: the
\* consumer keeps advancing the drain and calls it again when it has ended, and the
\* executor's workers keep taking work items and every started task completes.
FairConsumer ==
  \/ DrainStart(FALSE)
  \/ AsInstall
  \/ AsYield
  \/ AsCheck
  \/ AsWait
  \/ AsEnd
  \/ DrainRemove
  \/ DrainRelease
  \/ DrainResult
  \/ DrainDel
  \/ DrainYield

FairNext == Producer \/ Executor \/ FairConsumer

Completes(h) ==
  TaskStart(h) \/ (\E kind \in TaskKinds : TaskFinish(h, kind)) \/ TaskNotifyCancel(h)

FairSpec ==
  /\ Init
  /\ [][FairNext]_vars
  /\ WF_vars(FairConsumer)
  /\ \A h \in Handles : WF_vars(Completes(h))

\* The driver without timeouts and a producer that keeps submitting: a submit that
\* can acquire its permit does.
LiveSpec == FairSpec /\ WF_vars(Producer)

\* ------------------------------------------------------------------ claims, driver
Pos(s, x) == CHOOSE i \in 1..Len(s) : s[i] = x

\* the number of results the consumer received for handle h
Count(h) == Cardinality({i \in 1..Len(yielded) : yielded[i][1] = h})

Delivered(h) == Count(h) > 0

\* the drain holds h between as_completed's yield and its own
InFlight(h) == future = h \/ (dpc \in {"del", "yield"} /\ result[1] = h)

\* C1: with a semaphore of size K, the active set never holds more than K handles,
\* whatever the number of submitted tasks and the interleaving of the producers,
\* the task completions and the consumer.
C1_ActiveSetBounded == sem => Len(futures) <= pool

\* more tasks than permits, one delivered, and the active set full again
C1_Witness ==
  /\ sem
  /\ pool < MaxTasks
  /\ Len(yielded) >= 1
  /\ Len(futures) = pool
  /\ permits = 0

\* C2: every registered task that is never cancelled is delivered exactly once: no
\* result is yielded twice, and when the tasks complete and the consumer keeps
\* draining without timeout, in the end every registered task has been delivered or
\* was cancelled. (Registered, Cancelled and Delivered are stable, so this is
\* P ~> Q for every handle.)
C2_Original ==
  /\ [](\A h \in Handles : Count(h) <= 1)
  /\ <>[](\A h \in Handles : Registered(h) => (Delivered(h) \/ Cancelled(h)))

\* what C3 says of the faults the drain captures: every yielded result is the
\* outcome of its task, and a task that raised and left the active set is yielded
\* as that failure (or is being yielded)
FaultsCaptured ==
  /\ \A i \in 1..Len(yielded) : yielded[i][2] = ResultOf(yielded[i][1])
  /\ \A h \in Handles :
       (outcome[h] \in {"exception", "baseexception"} /\ h \notin Range(futures))
         => (Delivered(h) \/ InFlight(h))

\* C3: a task that raises never makes the drain raise or end: its fault is yielded
\* as a failure value, the drain does not raise, and when the sequence ends it has
\* yielded every task it was started with.
C3_Original ==
  /\ FaultsCaptured
  /\ dpc # "raised"
  /\ dpc = "ended" => snap = Range(out)

\* C4 as stated: a permit is never released twice, and the permit of a handle that
\* has left the active set has been released (the drain releases it right after
\* removing the handle).
C4_Original ==
  /\ sem => permits <= pool
  /\ \A h \in Handles :
       (Registered(h) /\ h \notin Range(futures) /\ ~(future = h /\ dpc = "release"))
         => ~holds[h]

\* what holds when the drain has raised the timeout fault
TimeoutKeepsHandles ==
  dpc = "timeout" =>
    /\ timeout /\ expired
    /\ snap \ Range(out) # {}
    /\ \A h \in snap \ Range(out) : h \in Range(futures) /\ (sem => holds[h])

\* C5: a drain that was given a timeout and is about to wait for outstanding handles
\* after the deadline ends by raising the timeout fault, and when it has, every
\* handle of the sequence whose result it has not yielded is still in the active
\* set with its permit held: none was removed or had its permit released unyielded.
C5_TimeoutKeepsHandles ==
  /\ []TimeoutKeepsHandles
  /\ [][(/\ dpc = "as" /\ asFinished = <<>> /\ asPending # {}
         /\ timeout /\ expired /\ dpc' # dpc) => dpc' = "timeout"]_vars

\* a sequence with a semaphore timed out after one result, another handle outstanding
C5_Witness ==
  /\ dpc = "timeout"
  /\ sem
  /\ Len(out) = 1
  /\ \E h \in snap \ Range(out) : h \in Range(futures) /\ holds[h]

\* C6 (as amended): of two handles X and Y delivered by the same sequence, X
\* completed before Y, X is yielded before Y when Y completed after the sequence
\* sorted the handles of its snapshot into done and outstanding; handles already
\* done then are yielded first, in any order.
C6_CompletionOrder ==
  \A x, y \in Range(out) :
    (Pos(completed, x) < Pos(completed, y) /\ y \notin early)
      => Pos(out, x) < Pos(out, y)

\* two handles that completed while the sequence waited, yielded against the
\* order of their submission
C6_Witness ==
  /\ Len(out) = 2
  /\ early = {}
  /\ out[1] > out[2]
  /\ Pos(completed, out[1]) < Pos(completed, out[2])

\* C6 as stated: two handles delivered by the same sequence are yielded in the
\* order they completed.
C6_Original ==
  \A x, y \in Range(out) :
    Pos(completed, x) < Pos(completed, y) => Pos(out, x) < Pos(out, y)

\* C7 (as amended): the sequence ends exactly when every handle of the snapshot it
\* took at its first advance has been yielded: it has yielded them all when it
\* ends, it waits only while one of them is outstanding, and handles registered
\* after the snapshot may be left in the active set.
C7_EndsWithSnapshot ==
  /\ dpc = "ended" => snap = Range(out)
  /\ dpc = "wait" => snap \ Range(out) # {}
  /\ (dpc = "as" /\ asFinished = <<>> /\ asPending = {}) => snap = Range(out)

\* a sequence without timeout has ended after yielding its snapshot, and a handle
\* registered meanwhile is done and still in the active set
C7_Witness ==
  /\ dpc = "ended"
  /\ ~timeout
  /\ Len(out) >= 1
  /\ \E h \in Range(futures) : h \notin snap /\ Done(h)

\* C7 as stated: without a timeout the sequence ends only when the live active set
\* is empty.
C7_Original ==
  [][(dpc # "ended" /\ dpc' = "ended" /\ ~timeout) => futures = <<>>]_vars

\* C8 (as amended): a handle cancelled before it completed produces exactly one
\* result: once a worker has notified its cancellation the drain removes it from
\* the active set, releases no permit for it and yields the CancelledError that
\* future.result() raised, as a failure value.
C8_CancelledYieldsError ==
  /\ \A i \in 1..Len(yielded) :
       Cancelled(yielded[i][1]) <=> yielded[i][2] = "cancelled"
  /\ \A h \in Handles :
       Cancelled(h) =>
         /\ Count(h) <= 1
         /\ sem => holds[h]
         /\ h \notin Range(futures) => (Delivered(h) \/ InFlight(h))

\* the consumer received the CancelledError of a cancelled handle
C8_Witness ==
  \E i \in 1..Len(yielded) :
    /\ yielded[i][2] = "cancelled"
    /\ fstate[yielded[i][1]] = "notified"
    /\ yielded[i][1] \notin Range(futures)

\* C8 as stated: the drain yields nothing for a cancelled handle.
C8_Original == \A i \in 1..Len(yielded) : ~Cancelled(yielded[i][1])

\* what the drain still references of the handles it took from as_completed
Referenced == asFs \cup asPending \cup Range(asFinished) \cup Range(waiterFin)

\* what C17 says of the steps before the yield: the handle is removed from the
\* active set before the permit is released, and the permit is released before
\* the outcome is resolved
RemoveReleaseResolve ==
  /\ dpc \in {"release", "result"} => future \notin Range(futures)
  /\ dpc = "result" => (Releases(sem, Cancelled(future)) => ~holds[future])

\* while the drain waits for the next completion it references no handle whose
\* result was yielded
NoYieldedReference ==
  dpc \in {"as", "wait"} => (future = NoHandle /\ Range(out) \cap Referenced = {})

\* C17 (as amended): for each completed handle the drain removes the handle from
\* the active set, releases the permit, resolves the outcome, drops its own
\* reference to the handle and only then yields the result (drop, then yield): the
\* consumer receives the result when the drain references the handle no more, and
\* while the drain waits for the next completion it references no handle whose
\* result was yielded.
C17_DropThenYield ==
  /\ RemoveReleaseResolve
  /\ dpc = "del" => result[1] = future
  /\ dpc = "yield" =>
       (future = NoHandle /\ result[1] # NoHandle /\ result[1] \notin Referenced)
  /\ NoYieldedReference

\* the drain is about to yield its second result, its reference already dropped
C17_Witness ==
  /\ dpc = "yield"
  /\ future = NoHandle
  /\ result[1] # NoHandle
  /\ Len(out) = 1

\* C17 as stated: the result is yielded while the drain still references the
\* handle, and the reference is dropped after the yield (yield, then drop).
C17_Original ==
  /\ RemoveReleaseResolve
  /\ dpc = "yield" => future = result[1]
  /\ NoYieldedReference

\* the drain executes its release statement
ReleaseStep == dpc = "release" /\ dpc' # dpc

\* C18: the drain releases a permit for a handle if and only if a semaphore was
\* supplied and the handle was not cancelled: only its release statement adds a
\* permit, one, for a handle it has removed; for a cancelled handle it leaves the
\* permit count unchanged, the handle removed; without semaphore there is no
\* permit it touches.
C18_ReleaseIffLive ==
  /\ [](~sem => permits = 0)
  /\ [][permits' > permits =>
          (ReleaseStep /\ sem /\ ~Cancelled(future) /\ permits' = permits + 1)]_vars
  /\ [][(ReleaseStep /\ sem /\ ~Cancelled(future)) =>
          (permits' = permits + 1 /\ future \notin Range(futures))]_vars
  /\ [][(ReleaseStep /\ (~sem \/ Cancelled(future))) =>
          (permits' = permits /\ holds' = holds /\ future \notin Range(futures'))]_vars

\* with a semaphore, the drain has passed its release statement for a cancelled
\* handle: the handle is removed and still holds its permit
C18_Witness ==
  /\ sem
  /\ dpc = "result"
  /\ fstate[future] = "notified"
  /\ future \notin Range(futures)
  /\ holds[future]

\* C19 as stated: a submit that is waiting for a permit eventually acquires one and
\* registers its task, when the tasks complete or are cancelled and the consumer
\* keeps draining, also when outstanding handles were cancelled.
C19_Original == \A h \in Handles : (fstate[h] = "none") ~> Registered(h)

\* ------------------------------------------------------------------ claims, bucket
\* C9: consume and set_rate are one atomic critical section each: a call entering
\* its critical section sees the bucket the calls before it left, and whenever the
\* lock is free the tokens, rate and last-refill time, and the wait every call
\* returned, are those of the sequential execution of the calls in exit order.
C9_Serializable ==
  /\ lock = NoThread => <<tokens, rate, last>> = seq
  /\ \A t \in Threads :
       /\ pc[t] \in {"s_rate", "c_rate"} => pre[t] = seq
       /\ pc[t] \in {"idle", "s_lock", "c_lock"} => FracEq(ret[t], seqRet[t])

\* a consume waits for the lock while another thread is in the middle of a consume
\* on a bucket in debt, after time has passed
C9_Witness ==
  /\ pc["t1"] = "c_debit"
  /\ pc["t2"] = "c_lock"
  /\ lock = "t1"
  /\ seq[1] < 0
  /\ lapse["t1"] > 0

Min(a, b) == IF a < b THEN a ELSE b

\* C10: for rate > 0, consume(amount) at elapsed time e since the last refill sets
\* tokens to min(tokens + e * rate, rate) - amount and lastRefill to now, and
\* returns 0 when the new tokens are >= 0 and otherwise a wait w with
\* w * rate = -tokens.
C10_ConsumeFormula ==
  \A t \in Threads :
    (pc[t] = "c_exit" /\ pre[t][2] > 0) =>
      LET e == now[t] - pre[t][3]
          expected == Min(pre[t][1] + e * pre[t][2], pre[t][2]) - arg[t]
      IN  /\ rate = pre[t][2]
          /\ tokens = expected
          /\ last = now[t]
          /\ expected >= 0 => ret[t][1] = 0
          /\ expected < 0 => (ret[t][1] * rate = -tokens * ret[t][2] /\ ret[t][1] > 0)

\* a consume on a bucket in debt after time has passed, returning a positive wait
C10_Witness ==
  \E t \in Threads :
    /\ pc[t] = "c_exit"
    /\ pre[t][2] > 0
    /\ pre[t][1] < 0
    /\ now[t] > pre[t][3]
    /\ ret[t][1] > 0

\* C11: between the calls and after every accounting step of a call (the clamp of
\* consume, the reset of set_rate), tokens <= rate, however long the bucket sat idle;
\* tokens may be negative.
C11_TokensBounded ==
  /\ lock = NoThread => tokens <= rate
  /\ \A t \in Threads :
       pc[t] \in {"s_exit", "c_debit", "c_test", "c_exit"} => tokens <= rate

\* a bucket in debt sat idle for longer than its refill takes, and the clamp cut
\* the refill to one time unit's worth
C11_Witness ==
  \E t \in Threads :
    /\ pc[t] = "c_debit"
    /\ pre[t][1] < 0
    /\ Refill(pre[t][1], lapse[t], rate) > rate
    /\ tokens = rate

Max(a, b) == IF a > b THEN a ELSE b

\* C12: on a freshly rated bucket of rate > 0, in a sequence of consume calls that
\* all happen at the same instant, the k-th call returns the wait
\* max(0, -(rate - sum of the amounts of calls 1..k)) / rate.
C12_AdditiveWaits ==
  \A t \in Threads :
    (pc[t] = "c_exit" /\ rate > 0 /\ burst[1] >= 0 /\ burst[2] \in {-1, now[t]}) =>
      ret[t][1] * rate = Max(0, -(rate - (burst[1] + arg[t]))) * ret[t][2]

\* a call that follows same-instant calls which the bucket could serve, and whose
\* amount takes the sum beyond the rate
C12_Witness ==
  \E t \in Threads :
    /\ pc[t] = "c_exit"
    /\ rate > 0
    /\ burst[2] = now[t]
    /\ burst[1] >= 1
    /\ burst[1] < rate
    /\ burst[1] + arg[t] > rate
    /\ ret[t][1] > 0

\* C13: whenever rate is 0, on a bucket never rated and after set_rate(0), consume
\* returns 0 for every amount and every elapsed time, and leaves tokens, rate and
\* the last-refill time unchanged.
C13_UnlimitedFrame ==
  \A t \in Threads :
    (pc[t] = "c_exit" /\ pre[t][2] = 0) =>
      /\ ret[t] = Zero
      /\ <<tokens, rate, last>> = pre[t]

\* a consume of a positive amount, time having passed, on a bucket that was rated,
\* used, and then set to rate 0
C13_Witness ==
  \E t \in Threads :
    /\ pc[t] = "c_exit"
    /\ pre[t][2] = 0
    /\ arg[t] > 0
    /\ last > 0
    /\ clock > last

\* C14: when set_rate(rate) with rate > 0 returns, tokens = rate, whatever the rate
\* and the tokens were before, a debt included.
C14_SetRateFills ==
  \A t \in Threads :
    (pc[t] = "s_exit" /\ arg[t] > 0) => (rate = arg[t] /\ tokens = arg[t])

\* set_rate on a bucket in debt, changing the rate
C14_Witness ==
  \E t \in Threads :
    /\ pc[t] = "s_exit"
    /\ arg[t] > 0
    /\ pre[t][1] < 0
    /\ pre[t][2] > 0
    /\ pre[t][2] # arg[t]

\* what C15 says of the first call: on a freshly rated bucket, rate > 0,
\* consume(rate) returns 0
FullBurstServed ==
  \A t \in Threads :
    (pc[t] = "c_exit" /\ rate > 0 /\ burst = <<0, -1>> /\ arg[t] = rate)
      => ret[t] = Zero

\* the call C15 is about: consume(rate + 1) at the instant of calls that took the
\* rate's worth from a freshly rated bucket
AfterFullBurst(t) ==
  /\ pc[t] = "c_exit"
  /\ rate > 0
  /\ burst = <<rate, now[t]>>
  /\ arg[t] = rate + 1

\* C15 (as amended): on a bucket freshly rated with set_rate(rate), rate > 0,
\* consume(rate) returns 0, and a consume(rate + 1) called at the same instant
\* returns the wait (rate + 1) / rate, that of the whole amount: the first call
\* left the bucket empty.
C15_FullBurstThenDebt ==
  /\ FullBurstServed
  /\ \A t \in Threads : AfterFullBurst(t) => ret[t][1] * rate = (rate + 1) * ret[t][2]

\* set_rate(rate), consume(rate), consume(rate + 1) and nothing else
C15_Witness ==
  \E t \in Threads :
    /\ AfterFullBurst(t)
    /\ calls = 3
    /\ \A u \in Threads \ {t} : pc[u] = "idle"

\* C15 as stated: the second call returns the wait 1 / rate.
C15_Original ==
  /\ FullBurstServed
  /\ \A t \in Threads : AfterFullBurst(t) => ret[t][1] * rate = ret[t][2]

\* C16: the returned wait is exactly the refill time of the debt: when a consume
\* returned the wait w and the next call on the bucket, the rate unchanged, is a
\* consume(a) after elapsed time t >= w, the bucket holds at least 0 tokens before
\* the debit, exactly 0 when t = w > 0; and the call returns 0 when
\* t >= w + a / rate and a <= rate, which is so when a = 0, and when w = 0, t = 1
\* and a <= rate, as for a consume(rate) one time unit after a consume(rate) that
\* returned 0. (The first consume is at the instant 0.0, so that t is time().)
C16_Original ==
  (fstep = "done" /\ fextra >= 0) =>
    /\ FNonNegative(fbefore)
    /\ fextra = 0 => fbefore = FZero
    /\ (farg = 0 \/ (fwait = FZero /\ fextra = 1 /\ farg <= frate)) => fret = FZero

\* the number P of producers of the stream
Producers == Cardinality(Threads)

\* C20: with a fixed rate > 0 and P producers that each sleep the returned wait
\* before their next consume and request at most A = MaxAmount units per call, the
\* debt never exceeds P * A, and the amount consumed up to any time T after
\* set_rate is at most rate * (T + 1) + P * A, whatever the interleaving: when a
\* call has debited its amount at the instant it read, and at every instant while
\* no call is running.
C20_AggregateRate ==
  /\ -tokens <= Producers * MaxAmount
  /\ setAt >= 0 => total <= rate * (clock - setAt + 1) + Producers * MaxAmount
  /\ \A t \in Threads :
       (setAt >= 0 /\ pc[t] \in {"c_test", "c_exit"}) =>
         total + arg[t] <= rate * (now[t] - setAt + 1) + Producers * MaxAmount

\* both producers are told to wait and the debt is P * A: one of them came back
\* after its wait while the other's debt was outstanding
C20_Witness ==
  /\ setAt >= 0
  /\ -tokens = Producers * MaxAmount
  /\ \A t \in Threads : ret[t][1] > 0
  /\ \E t \in Threads : retAt[t] > setAt

====
